---- MODULE Spec2Model ----
(***************************************************************************)
(* BarangayCare: the complaint store (Supabase table "complaints" with its *)
(* row level security policies), the ComplaintProvider of every browser    *)
(* client (fetchComplaints, addComplaint, updateComplaint, the realtime    *)
(* subscription) and the session / guest-mode state they read.             *)
(*                                                                         *)
(* Every await of the provider is a separate step: the request is          *)
(* evaluated by the database in one step (under the identity of the token  *)
(* the request carries) and its response is handled by the client in a     *)
(* later step, so calls of different clients, and the fetches of one       *)
(* client, interleave freely.                                              *)
(***************************************************************************)
EXTENDS Integers, Sequences, FiniteSets, TLC

(***************************************************************************)
(* Bounds of the model.                                                    *)
(***************************************************************************)
MaxAdds == 2        \* addComplaint calls started, over all clients
MaxUpdates == 1     \* updateComplaint calls started, over all clients
MaxFetches == 2     \* fetchComplaints calls issued per client (the mount fetch included)
MaxAuth == 1        \* sign-in / sign-out / guest-mode changes, over all clients
MaxMigrations == 2  \* runs of the localStorage migration, over all clients
MaxSkew == 3        \* how far a browser's clock runs ahead of the database's

Clients == {"c1", "c2"}
Residents == {"u1", "u2"}
Admins == {"adm"}
Users == Residents \cup Admins
NoUser == "none"                \* no session / user_id IS NULL / auth.uid() IS NULL
Null == "null"                  \* an absent text value

Statuses == {"pending", "in-progress", "resolved", "rejected"}
Priorities == {"low", "medium", "high"}
Notes == {"checked"}

\* the category values the form offers that the code tells apart, and one that it does not
Categories == {"emergency", "civil-disputes", "minor-criminal", "other"}
Empty == ""                     \* the empty string, the initial value of every form field

(***************************************************************************)
(* Display names.  A name is its text before the trailing digits and the   *)
(* digits themselves, so that formatting and parsing an anonymous handle   *)
(* are computed digit by digit as the code does.                           *)
(***************************************************************************)
AnonPrefix == "Anonymous"
PadWidth == 3

RECURSIVE ToDigits(_)
\* Number.prototype.toString(): the decimal digits of n, most significant first
ToDigits(n) == IF n < 10 THEN <<n>> ELSE Append(ToDigits(n \div 10), n % 10)

RECURSIVE PadStart(_, _)
\* String.prototype.padStart(w, "0"): never shortens
PadStart(ds, w) == IF Len(ds) >= w THEN ds ELSE PadStart(<<0>> \o ds, w)

RECURSIVE ParseInt(_)
\* parseInt of a string of decimal digits
ParseInt(ds) == IF ds = <<>> THEN 0 ELSE 10 * ParseInt(SubSeq(ds, 1, Len(ds) - 1)) + ds[Len(ds)]

\* `Anonymous${nextNumber.toString().padStart(3, "0")}`
AnonName(n) == [prefix |-> AnonPrefix, digits |-> PadStart(ToDigits(n), PadWidth)]

\* the name a user signed up with: `${firstName} ${lastName}`, never empty, so that
\* user.user_metadata?.name || user.email || "Unknown User" is the name
UserName(u) == [prefix |-> u, digits |-> <<>>]

\* .like("user_name", "Anonymous%")
LikeAnonymous(name) == name.prefix = AnonPrefix

\* user_name.match(/Anonymous(\d+)/): the digits captured, or <<>> when there is no match
MatchAnonymous(name) == IF name.prefix = AnonPrefix THEN name.digits ELSE <<>>

(***************************************************************************)
(* Row level security of table complaints.  caller is the user of the      *)
(* request's token, NoUser for the anon key.                               *)
(***************************************************************************)
IsAdminUser(u) == u \in Admins          \* user_metadata.role = 'admin'

\* Mutant of CanSelect: the table without the policy "Admins can view all complaints"
CanSelectOwn(caller, row) == caller # NoUser /\ row.user_id = caller

\* SELECT policies: "Users can view their own complaints" or "Admins can view all complaints"
CanSelect(caller, row) ==
    \/ (caller # NoUser /\ row.user_id = caller)
    \/ IsAdminUser(caller)

\* INSERT policies: "Users can insert their own complaints" or "Guests can insert complaints"
InsertCheck(caller, row) ==
    \/ (caller # NoUser /\ row.user_id = caller)
    \/ row.user_id = NoUser

\* Mutant of InsertPermitted: the returned row is not checked against the SELECT policies
InsertPermittedUnread(caller, row) == InsertCheck(caller, row)

\* .insert([dbComplaint]).select().single(): the new row is returned to the caller
\* (INSERT ... RETURNING), so PostgreSQL applies the SELECT policies to the new row
\* as well and fails the statement ("new row violates row-level security policy",
\* the error TROUBLESHOOT_GUEST.md lists) when the caller may not read it.
InsertPermitted(caller, row) == InsertCheck(caller, row) /\ CanSelect(caller, row)

\* Mutant of CanUpdate: the table without row level security on UPDATE
CanUpdateAny(caller, row) == TRUE

\* UPDATE policies: "Users can update their own complaints" or "Admins can update all complaints"
CanUpdate(caller, row) ==
    \/ (caller # NoUser /\ row.user_id = caller)
    \/ IsAdminUser(caller)

VARIABLES
    store,          \* the rows of table complaints, in creation order (row i has id i;
                    \* legacy: the id is the one of the complaint kept in localStorage)
    clock,          \* the next timestamp new Date() / NOW() gives
    session,        \* per client: the user of the persisted Supabase session, or NoUser
    guestMode,      \* per client: localStorage "guestMode" = "true"
    complaints,     \* per client: the provider's complaints state (the cache)
    fetches,        \* per client: the fetchComplaints calls issued, in issue order
                    \* (rows: how many rows the table held when the query ran)
    pending,        \* per client: realtime events received, callback not yet run
    op,             \* per client: the addComplaint / updateComplaint call in progress
    applied,        \* per client: issue number of the fetch whose response was applied last
    left,           \* calls and session changes the run may still start
    counts,         \* writes committed and events published so far
    guestLog,       \* the guest submissions that reached the store, in commit order
    profile,        \* per user: user_metadata.name as the user's session carries it
                    \* (NoName once the account is deleted)
    auth,           \* per client: the AuthProvider's state user, isAdmin and loading, and
                    \* event: the user of a SIGNED_IN event whose handler has not finished
    selectedComplaint, \* per client: the complaint the admin panel's Manage dialog shows
    synced          \* per client: subscribed with an unchanged session since the last commit it may read

vars == <<store, clock, session, guestMode, complaints, fetches, pending, op,
          applied, left, counts, guestLog, profile, synced, auth, selectedComplaint>>

(***************************************************************************)
(* Rows and cache entries.                                                 *)
(***************************************************************************)
NoName == [prefix |-> "", digits |-> <<>>]

NoRow == [id |-> 0, legacy |-> FALSE, title |-> Null, description |-> Null, category |-> Null,
          location |-> Null, contact_info |-> Null, respondent |-> Null,
          user_id |-> NoUser, user_name |-> NoName, status |-> "pending",
          priority |-> "medium", admin_notes |-> Null, date_submitted |-> 0,
          created_at |-> 0, updated_at |-> 0]

\* The row TROUBLESHOOT_GUEST.md has the operator insert by hand in the SQL editor
\* ("Manual Test", user_id NULL, user_name 'Anonymous999').
ManualTestRow == [id |-> 1, legacy |-> FALSE, title |-> "Manual Test", description |-> "Testing guest submission",
                  category |-> "Infrastructure", location |-> "Test Location",
                  contact_info |-> "test@test.com", respondent |-> Null,
                  user_id |-> NoUser, user_name |-> AnonName(999),
                  status |-> "pending", priority |-> "medium", admin_notes |-> Null,
                  date_submitted |-> 0, created_at |-> 0, updated_at |-> 0]

\* Transform data from snake_case to camelCase (created_at and updated_at are dropped)
ToComplaint(row) ==
    [id |-> row.id, title |-> row.title, description |-> row.description,
     category |-> row.category, location |-> row.location, contactInfo |-> row.contact_info,
     respondent |-> row.respondent, status |-> row.status, priority |-> row.priority,
     dateSubmitted |-> row.date_submitted, adminNotes |-> row.admin_notes,
     userId |-> row.user_id, userName |-> row.user_name]

RowIds == 1..Len(store)

RECURSIVE OrderByDateDesc(_)
\* .order("date_submitted", { ascending: false })
OrderByDateDesc(ids) ==
    IF ids = {} THEN <<>>
    ELSE LET m == CHOOSE i \in ids :
                    \A j \in ids : store[j].date_submitted <= store[i].date_submitted
         IN  <<store[m]>> \o OrderByDateDesc(ids \ {m})

MapComplaints(rows) == [k \in 1..Len(rows) |-> ToComplaint(rows[k])]

\* Mutant of SelectComplaints: the query without its user_id filter on a table
\* whose row level security is switched off
SelectComplaintsUnscoped(user) == MapComplaints(OrderByDateDesc(RowIds))

\* fetchComplaints' query as the database answers it for a request of `user`:
\* select * under the SELECT policies, .eq("user_id", user.id) unless admin
SelectComplaints(user) ==
    MapComplaints(OrderByDateDesc(
        {i \in RowIds : /\ CanSelect(user, store[i])
                        /\ (IsAdminUser(user) \/ store[i].user_id = user)}))

\* addComplaint's "last guest" query as the database answers it for `caller`:
\* .is("user_id", null).like("user_name", "Anonymous%")
\* .order("created_at", desc).limit(1).single(); NoName when no row is returned
LastGuest(caller) ==
    LET S == {i \in RowIds : /\ CanSelect(caller, store[i])
                             /\ store[i].user_id = NoUser
                             /\ LikeAnonymous(store[i].user_name)}
    IN  IF S = {} THEN NoName
        ELSE store[CHOOSE i \in S : \A j \in S : store[j].created_at <= store[i].created_at].user_name

\* let nextNumber = 1; if (lastGuest?.user_name) { match ... parseInt(match[1]) + 1 }
NextNumber(lastName) ==
    IF lastName # NoName /\ MatchAnonymous(lastName) # <<>>
    THEN ParseInt(MatchAnonymous(lastName)) + 1
    ELSE 1

\* postgres_changes events a write attempt puts on the "complaints-changes" channel:
\* one per committed row change, none for a statement that failed
\* Mutant of Notify: an event for every statement, committed or not
NotifyAlways(committed) == 1

Notify(committed) == IF committed THEN 1 ELSE 0

\* the clients whose subscription receives the change of `row` (realtime applies the
\* SELECT policies of the subscriber's token)
Receivers(row) == {c \in Clients : CanSelect(session[c], row)}

\* useState<Complaint | null>(null): no complaint selected
NoComplaint == ToComplaint(NoRow)

Idle == [pc |-> "idle", token |-> NoUser, closure |-> <<>>, view |-> NoComplaint, row |-> NoRow,
         upd |-> [id |-> 0, field |-> "status", value |-> "pending"], result |-> Null]

AddPcs == {"addRead", "addInsert", "addResp"}

TypeOK ==
    /\ clock \in Nat
    /\ session \in [Clients -> Users \cup {NoUser}]
    /\ guestMode \in [Clients -> BOOLEAN]
    /\ pending \in [Clients -> Nat]
    /\ applied \in [Clients -> Nat]
    /\ \A c \in Clients : op[c].pc \in {"idle", "updWrite", "updResp"} \cup AddPcs

\* Mutant of NoSessionResult: a record is shown to a client without a session
NoSessionResultLeaky == <<ToComplaint(ManualTestRow)>>

\* if (!session) { setComplaints([]); return; }
NoSessionResult == <<>>

\* fetchComplaints up to its query, as issued by a client whose session is `user`:
\* without a session it has already set complaints to [] and returned
NewFetch(user) ==
    IF user = NoUser
    THEN [pc |-> "done", user |-> NoUser, data |-> NoSessionResult, rows |-> 0]
    ELSE [pc |-> "query", user |-> user, data |-> <<>>, rows |-> 0]

\* useState(null), useState(true), useState(false): the AuthProvider as constructed
NoAuth == [user |-> NoUser, isAdmin |-> FALSE, loading |-> TRUE, event |-> NoUser]

\* Every client has loaded the page: the session and the guest flag are the persisted
\* ones (persistSession, localStorage), the provider has mounted with complaints = []
\* and its mount effect has called fetchComplaints.
Init ==
    /\ store \in {<<>>, <<ManualTestRow>>}
    /\ clock = 1
    /\ session \in [Clients -> Users \cup {NoUser}]
    /\ guestMode \in [Clients -> BOOLEAN]
    /\ complaints = [c \in Clients |-> <<>>]
    /\ fetches = [c \in Clients |-> <<NewFetch(session[c])>>]
    /\ pending = [c \in Clients |-> 0]
    /\ op = [c \in Clients |-> Idle]
    /\ applied = [c \in Clients |-> IF session[c] = NoUser THEN 1 ELSE 0]
    /\ left \in [adds : 0..MaxAdds, updates : 0..MaxUpdates + 1, auth : 0..MaxAuth + 1,
                  migrations : 0..MaxMigrations]
    /\ counts = [published |-> 0, commits |-> 0, overlap |-> FALSE]
    /\ guestLog = <<>>
    /\ profile = [u \in Users |-> UserName(u)]
    /\ auth = [c \in Clients |-> NoAuth]
    /\ selectedComplaint = [c \in Clients |-> NoComplaint]
    /\ synced = [c \in Clients |-> FALSE]

(***************************************************************************)
(* Session and guest mode.                                                 *)
(***************************************************************************)
AuthChange(c) ==
    /\ left.auth > 0
    /\ left' = [left EXCEPT !.auth = @ - 1]
    /\ synced' = [synced EXCEPT ![c] = FALSE]

\* signIn: supabase.auth.signInWithPassword stores the session and emits SIGNED_IN;
\* then the profile is requested and, if (response.ok), setUser(profile).  isAdmin is
\* left to the SIGNED_IN handler.  The provider's complaints state is not touched
\* and no fetch is issued
SignIn(c, u) ==
    /\ session[c] = NoUser
    /\ profile[u] # NoName
    /\ AuthChange(c)
    /\ session' = [session EXCEPT ![c] = u]
    /\ \E ok \in BOOLEAN :
          auth' = [auth EXCEPT ![c] = [@ EXCEPT !.user = IF ok THEN u ELSE @, !.event = u]]
    /\ UNCHANGED <<selectedComplaint, profile, store, clock, guestMode, complaints, fetches, pending, op, applied, counts, guestLog>>

\* signOut: supabase.auth.signOut() removes the session and emits SIGNED_OUT, whose
\* handler does setUser(null), setIsAdmin(false); then setUser(null).  The
\* guest-mode version also clears "guestMode".  Without a user AppContent renders
\* the login form: the admin panel unmounts and its state is gone
SignOut(c) ==
    /\ session[c] # NoUser
    /\ AuthChange(c)
    /\ session' = [session EXCEPT ![c] = NoUser]
    /\ guestMode' = [guestMode EXCEPT ![c] = FALSE]
    /\ auth' = [auth EXCEPT ![c] = [@ EXCEPT !.user = NoUser, !.isAdmin = FALSE]]
    /\ selectedComplaint' = [selectedComplaint EXCEPT ![c] = NoComplaint]
    /\ UNCHANGED <<profile, store, clock, complaints, fetches, pending, op, applied, counts, guestLog>>

\* loginAsGuest ("Continue as Guest" on the login form): localStorage guestMode = "true".
\* The login form is shown whenever the auth context has no user profile, which
\* includes a client whose session is live but whose profile request failed.
LoginAsGuest(c) ==
    /\ ~guestMode[c]
    /\ AuthChange(c)
    /\ guestMode' = [guestMode EXCEPT ![c] = TRUE]
    /\ selectedComplaint' = [selectedComplaint EXCEPT ![c] = NoComplaint]
    /\ UNCHANGED <<auth, profile, store, clock, session, complaints, fetches, pending, op, applied, counts, guestLog>>

\* The names a user may type into the profile form: any text that is not blank
ProfileNames == {UserName(u) : u \in Users} \cup {AnonName(1)}

\* ProfileManagement.handleSaveProfile -> updateProfile(name): the server writes the
\* name into user_metadata, where the user's sessions find it from their next
\* token refresh on
UpdateProfile(c, name) ==
    /\ session[c] # NoUser
    /\ profile[session[c]] # NoName
    /\ name # profile[session[c]]
    /\ left.auth > 0
    /\ left' = [left EXCEPT !.auth = @ - 1]
    /\ profile' = [profile EXCEPT ![session[c]] = name]
    /\ UNCHANGED <<selectedComplaint, auth, store, clock, session, guestMode, complaints, fetches, pending, op,
                   applied, counts, guestLog, synced>>

\* initializeAuth (mount effect): getSession; with a session the profile is
\* requested: response.ok -> setUser(profile), setIsAdmin(role === "admin"); not ok,
\* or no session -> setUser(null), setIsAdmin(false); an exception -> setUser(null);
\* finally setLoading(false)
ProfileOutcomes == {"ok", "notOk", "throws"}

InitializeAuth(c, outcome) ==
    /\ auth[c].loading
    /\ auth' = [auth EXCEPT ![c] =
                  IF session[c] # NoUser /\ outcome = "ok"
                  THEN [@ EXCEPT !.user = session[c], !.isAdmin = IsAdminUser(session[c]),
                                 !.loading = FALSE]
                  ELSE IF session[c] # NoUser /\ outcome = "throws"
                  THEN [@ EXCEPT !.user = NoUser, !.loading = FALSE]
                  ELSE [@ EXCEPT !.user = NoUser, !.isAdmin = FALSE, !.loading = FALSE]]
    /\ UNCHANGED <<selectedComplaint, profile, store, clock, session, guestMode, complaints, fetches, pending,
                   op, applied, left, counts, guestLog, synced>>

\* onAuthStateChange, event SIGNED_IN: the profile is requested with the event's
\* token; if (response.ok) setUser(profile), setIsAdmin(role === "admin"), else nothing
OnSignedIn(c, ok) ==
    /\ auth[c].event # NoUser
    /\ auth' = [auth EXCEPT ![c] =
                  IF ok THEN [@ EXCEPT !.user = auth[c].event,
                                       !.isAdmin = IsAdminUser(auth[c].event),
                                       !.event = NoUser]
                  ELSE [@ EXCEPT !.event = NoUser]]
    /\ UNCHANGED <<selectedComplaint, profile, store, clock, session, guestMode, complaints, fetches, pending,
                   op, applied, left, counts, guestLog, synced>>

\* deleteAccount (the profile page, shown while user is set): DELETE /auth/profile
\* with the session's token; the server deletes the profile and the auth user
\* (ON DELETE CASCADE removes the user's complaints: the account deleted here
\* owns none); if (!response.ok) return the error, else setUser(null).  The
\* session stays in the client.
DeleteAccount(c, ok) ==
    /\ auth[c].user # NoUser
    /\ session[c] # NoUser
    /\ profile[session[c]] # NoName
    /\ \A i \in RowIds : store[i].user_id # session[c]
    /\ IF ok
       THEN /\ profile' = [profile EXCEPT ![session[c]] = NoName]
            /\ auth' = [auth EXCEPT ![c] = [@ EXCEPT !.user = NoUser]]
            /\ selectedComplaint' = [selectedComplaint EXCEPT ![c] = NoComplaint]
       ELSE UNCHANGED <<profile, auth, selectedComplaint>>
    /\ UNCHANGED <<store, clock, session, guestMode, complaints, fetches, pending,
                   op, applied, left, counts, guestLog, synced>>

(***************************************************************************)
(* fetchComplaints and the realtime subscription.                          *)
(***************************************************************************)
\* fetchComplaints up to its query: getSession; without a session setComplaints([])
\* and return, else the select is sent with the session's token
IssueFetch(c) ==
    /\ Len(fetches[c]) < MaxFetches
    /\ fetches' = [fetches EXCEPT ![c] = Append(@, NewFetch(session[c]))]
    /\ IF session[c] = NoUser
       THEN /\ complaints' = [complaints EXCEPT ![c] = NoSessionResult]
            /\ applied' = [applied EXCEPT ![c] = Len(fetches[c]) + 1]
       ELSE UNCHANGED <<complaints, applied>>

\* The subscription's callback: a postgres_changes event arrived, refetch
RealtimeCallback(c) ==
    /\ pending[c] > 0
    /\ pending' = [pending EXCEPT ![c] = @ - 1]
    /\ IssueFetch(c)
    /\ UNCHANGED <<selectedComplaint, auth, profile, store, clock, session, guestMode, op, left, counts, guestLog, synced>>

\* The database answers the select of fetch i
FetchQuery(c, i) ==
    /\ i \in 1..Len(fetches[c])
    /\ fetches[c][i].pc = "query"
    /\ fetches' = [fetches EXCEPT ![c][i] =
                      [@ EXCEPT !.pc = "resp", !.data = SelectComplaints(fetches[c][i].user),
                                !.rows = Len(store)]]
    /\ UNCHANGED <<selectedComplaint, auth, profile, store, clock, session, guestMode, complaints, pending, op, applied,
                   left, counts, guestLog, synced>>

\* The response of fetch i arrives: setComplaints(transformedComplaints)
FetchDeliver(c, i) ==
    /\ i \in 1..Len(fetches[c])
    /\ fetches[c][i].pc = "resp"
    /\ fetches' = [fetches EXCEPT ![c][i].pc = "done"]
    /\ complaints' = [complaints EXCEPT ![c] = fetches[c][i].data]
    /\ applied' = [applied EXCEPT ![c] = i]
    /\ UNCHANGED <<selectedComplaint, auth, profile, store, clock, session, guestMode, pending, op, left, counts, guestLog, synced>>

\* A committed change of `row`: the events published and who receives them
Publish(row, committed) ==
    /\ counts' = [counts EXCEPT !.published = @ + Notify(committed),
                                !.commits = @ + (IF committed THEN 1 ELSE 0)]
    /\ pending' = [c \in Clients |->
                      IF committed /\ c \in Receivers(row) THEN pending[c] + 1 ELSE pending[c]]
    /\ synced' = [c \in Clients |->
                      IF committed /\ c \in Receivers(row) THEN TRUE ELSE synced[c]]

(***************************************************************************)
(* addComplaint.                                                           *)
(***************************************************************************)
\* How far each browser's system clock is ahead of the database server's: nothing
\* synchronises the two, c1's is exact and c2's runs ahead
ClockAhead == [c \in Clients |-> IF c = "c2" THEN MaxSkew ELSE 0]

\* new Date() in the browser of client c
ClientNow(c) == clock + ClockAhead[c]

\* ComplaintForm: category === 'civil-disputes' || category === 'minor-criminal'
requiresRespondent(category) == category \in {"civil-disputes", "minor-criminal"}

\* Mutant of handleSubmit: every complaint is given the medium priority
handleSubmitMedium(form) ==
    [title |-> form.title, description |-> form.description, category |-> form.category,
     location |-> form.location, contactInfo |-> form.contactInfo,
     status |-> "pending", priority |-> "medium", adminNotes |-> Null,
     respondent |-> IF requiresRespondent(form.category) THEN form.respondent ELSE Null]

\* ComplaintForm.handleSubmit: the complaint handed to onSubmit for the form's state
handleSubmit(form) ==
    [title |-> form.title, description |-> form.description, category |-> form.category,
     location |-> form.location, contactInfo |-> form.contactInfo,
     status |-> "pending",
     priority |-> IF form.category = "emergency" THEN "high" ELSE "medium",
     adminNotes |-> Null,
     respondent |-> IF requiresRespondent(form.category) THEN form.respondent ELSE Null]

\* The states of the form's fields: every text field is still empty or has been
\* typed into.  The inputs carry the required attribute, which a browser enforces
\* before the submit event; handleSubmit and addComplaint do not look at it.
Forms ==
    [title : {Empty, "title"}, description : {Empty, "text"},
     category : Categories \cup {Empty}, location : {Empty, "street"},
     contactInfo : {Empty, "phone"}, respondent : {Empty, "name"}]

FilledForm == [title |-> "title", description |-> "text", category |-> "other",
               location |-> "street", contactInfo |-> "phone", respondent |-> Empty]

\* The arguments addComplaint is called with: what handleSubmit builds, and a
\* complaint in which one required property is undefined
MissingOne ==
    {[handleSubmit(FilledForm) EXCEPT !.title = Null],
     [handleSubmit(FilledForm) EXCEPT !.description = Null],
     [handleSubmit(FilledForm) EXCEPT !.category = Null],
     [handleSubmit(FilledForm) EXCEPT !.location = Null],
     [handleSubmit(FilledForm) EXCEPT !.contactInfo = Null]}

ComplaintData == {handleSubmit(f) : f \in Forms} \cup MissingOne

\* dbComplaint: the complaint's properties under their column names, user_id and
\* user_name as resolved, date_submitted the client's new Date()
DbComplaint(data, userId, userName, now) ==
    [NoRow EXCEPT !.title = data.title, !.description = data.description,
                  !.category = data.category, !.location = data.location,
                  !.contact_info = data.contactInfo, !.status = data.status,
                  !.priority = data.priority, !.admin_notes = data.adminNotes,
                  !.respondent = data.respondent,
                  !.user_id = userId, !.user_name = userName, !.date_submitted = now]

\* addComplaint up to its first request: getSession, localStorage "guestMode".
\* Neither user nor guest mode: the error is returned at once.  Guest mode: the
\* "last guest" select is sent.  Otherwise the insert is sent for the session's user.
AddStart(c, data) ==
    /\ op[c].pc = "idle"
    /\ left.adds > 0
    /\ left' = [left EXCEPT !.adds = @ - 1]
    /\ counts' = [counts EXCEPT !.overlap = @ \/ (\E d \in Clients : op[d].pc \in AddPcs)]
    /\ IF session[c] = NoUser /\ ~guestMode[c]
       THEN /\ op' = [op EXCEPT ![c] = [Idle EXCEPT !.result = "You must be logged in to submit a complaint"]]
            /\ clock' = clock
       ELSE IF guestMode[c]
       THEN /\ op' = [op EXCEPT ![c] = [Idle EXCEPT !.pc = "addRead", !.token = session[c],
                                                     !.closure = complaints[c],
                                                     !.row = DbComplaint(data, NoUser, NoName, 0)]]
            /\ clock' = clock
       ELSE /\ op' = [op EXCEPT ![c] = [Idle EXCEPT !.pc = "addInsert", !.token = session[c],
                                                     !.closure = complaints[c],
                                                     !.row = DbComplaint(data, session[c], profile[session[c]], ClientNow(c))]]
            /\ clock' = clock + 1
    /\ UNCHANGED <<selectedComplaint, auth, profile, store, session, guestMode, complaints, fetches, pending, applied, guestLog, synced>>

\* Guest mode: the database answers the "last guest" select; the client computes
\* the next handle, builds dbComplaint and sends the insert
AddReadLast(c) ==
    /\ op[c].pc = "addRead"
    /\ op' = [op EXCEPT ![c] = [@ EXCEPT !.pc = "addInsert", !.token = session[c],
                 !.row = [op[c].row EXCEPT
                            !.user_name = AnonName(NextNumber(LastGuest(op[c].token))),
                            !.date_submitted = ClientNow(c)]]]
    /\ clock' = clock + 1
    /\ UNCHANGED <<selectedComplaint, auth, profile, store, session, guestMode, complaints, fetches, pending, applied,
                   left, counts, guestLog, synced>>

\* The row as the database stores it: id, created_at and updated_at by default
Inserted(row) == [row EXCEPT !.id = Len(store) + 1, !.created_at = clock, !.updated_at = clock]

\* title, description, category, location, contact_info TEXT NOT NULL: a property
\* that is undefined is left out of the request and the column would be NULL
NotNullOk(row) ==
    \A v \in {row.title, row.description, row.category, row.location, row.contact_info} :
        v # Null

\* user_id UUID REFERENCES auth.users(id): the owner of a row is an existing user
ReferencesOk(row) == row.user_id = NoUser \/ profile[row.user_id] # NoName

\* Mutant of InsertedTable: the row stays in the table when only returning it
\* to the caller is refused
InsertedTableKept(caller, row) ==
    IF NotNullOk(row) /\ ReferencesOk(row) /\ InsertCheck(caller, row)
    THEN Append(store, row) ELSE store

\* the table after the insert statement: insert and returning select are one
\* statement, which adds the row or fails as a whole
InsertedTable(caller, row) ==
    IF NotNullOk(row) /\ ReferencesOk(row) /\ InsertPermitted(caller, row)
    THEN Append(store, row) ELSE store

\* The database executes the insert under the request's token
AddInsert(c) ==
    /\ op[c].pc = "addInsert"
    /\ LET row == Inserted(op[c].row)
           ok == NotNullOk(row) /\ ReferencesOk(row) /\ InsertPermitted(op[c].token, row)
       IN  /\ store' = InsertedTable(op[c].token, row)
           /\ op' = [op EXCEPT ![c] = [@ EXCEPT !.pc = "addResp",
                                                !.row = IF ok THEN row ELSE NoRow]]
           /\ guestLog' = IF row.user_id = NoUser
                          THEN Append(guestLog, [caller |-> op[c].token, ok |-> ok,
                                                 name |-> row.user_name])
                          ELSE guestLog
           /\ Publish(row, ok)
    /\ clock' = clock + 1
    /\ UNCHANGED <<selectedComplaint, auth, profile, session, guestMode, complaints, fetches, applied, left>>

\* The insert's response: on error return it; else setComplaints([newComplaint, ...complaints])
\* with the complaints of the render that created this addComplaint
AddFinish(c) ==
    /\ op[c].pc = "addResp"
    /\ IF op[c].row = NoRow
       THEN /\ op' = [op EXCEPT ![c] = [Idle EXCEPT !.result = "Failed to submit complaint"]]
            /\ complaints' = complaints
       ELSE /\ op' = [op EXCEPT ![c] = [Idle EXCEPT !.result = "ok"]]
            /\ complaints' = [complaints EXCEPT ![c] = <<ToComplaint(op[c].row)>> \o op[c].closure]
    /\ UNCHANGED <<selectedComplaint, auth, profile, store, clock, session, guestMode, fetches, pending, applied, left,
                   counts, guestLog, synced>>

(***************************************************************************)
(* migrateLocalStorageToSupabase.                                          *)
(***************************************************************************)
\* The complaint the old system left in localStorage "barangay-complaints", with
\* or without an id of its own; it has no userId, userName or priority
LegacyComplaints ==
    [hasId : BOOLEAN, title : {"title"}, description : {"text"}, category : {"other"},
     location : {"street"}, contactInfo : {"phone"}, status : {"pending"},
     dateSubmitted : {0}]

\* dbComplaints: user_id: complaint.userId || session.user.id, user_name likewise,
\* priority: complaint.priority || 'medium'; properties that are undefined
\* (adminNotes, respondent) are not sent
MigratedRow(old, item, user, now) ==
    [old EXCEPT !.title = item.title, !.description = item.description,
                !.category = item.category, !.location = item.location,
                !.contact_info = item.contactInfo, !.status = item.status,
                !.priority = "medium", !.user_id = user, !.user_name = profile[user],
                !.date_submitted = item.dateSubmitted, !.legacy = item.hasId,
                !.updated_at = now]

\* the rows whose id is the one the complaint in localStorage carries
Conflicting(item) == {i \in RowIds : item.hasId /\ store[i].legacy}

\* migrateLocalStorageToSupabase: getSession, then upsert(dbComplaints, { onConflict:
\* 'id', ignoreDuplicates: false }).select().  Without a row of that id the row is
\* inserted; with one, the existing row is updated (INSERT ... ON CONFLICT DO UPDATE,
\* under the INSERT, UPDATE and SELECT policies, the trigger setting updated_at).
\* localStorage is not cleared afterwards, so the migration can be run again.
Migrate(c, item) ==
    /\ session[c] # NoUser
    /\ left.migrations > 0
    /\ left' = [left EXCEPT !.migrations = @ - 1]
    /\ LET user == session[c]
           hit == Conflicting(item)
       IN  IF hit = {}
           THEN LET row == [Inserted(MigratedRow(NoRow, item, user, clock))
                               EXCEPT !.status = item.status]
                    ok == NotNullOk(row) /\ ReferencesOk(row) /\ InsertPermitted(user, row)
                IN  /\ store' = IF ok THEN Append(store, row) ELSE store
                    /\ Publish(row, ok)
           ELSE LET i == CHOOSE j \in hit : TRUE
                    row == MigratedRow(store[i], item, user, clock)
                    ok == /\ ReferencesOk(row)
                          /\ InsertPermitted(user, row)
                          /\ CanUpdate(user, store[i])
                IN  /\ store' = IF ok THEN [store EXCEPT ![i] = row] ELSE store
                    /\ Publish(row, ok)
    /\ clock' = clock + 1
    /\ UNCHANGED <<selectedComplaint, auth, session, guestMode, complaints, fetches, op, applied, guestLog, profile>>

(***************************************************************************)
(* updateComplaint.                                                        *)
(***************************************************************************)
\* The updates the admin panel sends (handleStatusUpdate, handlePriorityUpdate,
\* handleSaveNotes), for the ids that may exist and one that does not
UpdateValues == {"resolved"} \cup {"high"} \cup Notes
Updates ==
    {u \in [id : 1..MaxAdds + 2, field : {"status", "priority", "adminNotes"}, value : UpdateValues] :
        \/ u.field = "status" /\ u.value \in Statuses
        \/ u.field = "priority" /\ u.value \in Priorities
        \/ u.field = "adminNotes" /\ u.value \in Notes}

\* Mutant of ApplyDb: a resolved complaint is closed, its status is not written again
ApplyDbClosed(row, upd, now) ==
    [row EXCEPT !.status = IF upd.field = "status" /\ @ # "resolved" THEN upd.value ELSE @,
                !.priority = IF upd.field = "priority" THEN upd.value ELSE @,
                !.admin_notes = IF upd.field = "adminNotes" THEN upd.value ELSE @,
                !.updated_at = now]

\* Mutant of ApplyDb: the statement writes all three columns, those not in the
\* call with their column defaults
ApplyDbAllColumns(row, upd, now) ==
    [row EXCEPT !.status = IF upd.field = "status" THEN upd.value ELSE "pending",
                !.priority = IF upd.field = "priority" THEN upd.value ELSE "medium",
                !.admin_notes = IF upd.field = "adminNotes" THEN upd.value ELSE Null,
                !.updated_at = now]

\* Mutant of ApplyDb: the table without its update_complaints_updated_at trigger
ApplyDbNoTrigger(row, upd, now) ==
    [row EXCEPT !.status = IF upd.field = "status" THEN upd.value ELSE @,
                !.priority = IF upd.field = "priority" THEN upd.value ELSE @,
                !.admin_notes = IF upd.field = "adminNotes" THEN upd.value ELSE @]

\* dbUpdates applied to a row; the BEFORE UPDATE trigger sets updated_at = NOW()
ApplyDb(row, upd, now) ==
    [row EXCEPT !.status = IF upd.field = "status" THEN upd.value ELSE @,
                !.priority = IF upd.field = "priority" THEN upd.value ELSE @,
                !.admin_notes = IF upd.field = "adminNotes" THEN upd.value ELSE @,
                !.updated_at = now]

\* { ...complaint, ...updates, dateSubmitted: data.date_submitted }
ApplyLocal(complaint, upd, data) ==
    [complaint EXCEPT !.status = IF upd.field = "status" THEN upd.value ELSE @,
                      !.priority = IF upd.field = "priority" THEN upd.value ELSE @,
                      !.adminNotes = IF upd.field = "adminNotes" THEN upd.value ELSE @,
                      !.dateSubmitted = data.date_submitted]

\* setSelectedComplaint({ ...selectedComplaint, status: newStatus }) and its
\* priority and adminNotes counterparts, done if the dialog shows this complaint
ApplyPanel(complaint, upd) ==
    IF complaint # NoComplaint /\ complaint.id = upd.id
    THEN [complaint EXCEPT !.status = IF upd.field = "status" THEN upd.value ELSE @,
                           !.priority = IF upd.field = "priority" THEN upd.value ELSE @,
                           !.adminNotes = IF upd.field = "adminNotes" THEN upd.value ELSE @]
    ELSE complaint

\* The Manage button of entry k of the admin panel's table (AppContent renders the
\* panel only for a client with a user): setSelectedComplaint(complaint)
Manage(c, k) ==
    /\ auth[c].user # NoUser
    /\ op[c].pc = "idle"
    /\ k \in 1..Len(complaints[c])
    /\ selectedComplaint[c] # complaints[c][k]
    /\ selectedComplaint' = [selectedComplaint EXCEPT ![c] = complaints[c][k]]
    /\ UNCHANGED <<auth, profile, store, clock, session, guestMode, complaints, fetches,
                   pending, op, applied, left, counts, guestLog, synced>>

\* handleStatusUpdate / handlePriorityUpdate / handleSaveNotes: onUpdateComplaint is
\* called and not awaited, then the dialog's complaint is rewritten at once.
\* updateComplaint up to its request: getSession; without a session the error is
\* returned at once, else the update is sent with the session's token
UpdStart(c, upd) ==
    /\ op[c].pc = "idle"
    /\ left.updates > 0
    /\ left' = [left EXCEPT !.updates = @ - 1]
    /\ IF session[c] = NoUser
       THEN op' = [op EXCEPT ![c] = [Idle EXCEPT !.result = "You must be logged in to update a complaint"]]
       ELSE op' = [op EXCEPT ![c] = [Idle EXCEPT !.pc = "updWrite", !.token = session[c],
                                                 !.closure = complaints[c],
                                                 !.view = selectedComplaint[c], !.upd = upd]]
    /\ selectedComplaint' = [selectedComplaint EXCEPT ![c] = ApplyPanel(@, upd)]
    /\ UNCHANGED <<auth, profile, store, clock, session, guestMode, complaints, fetches, pending, applied,
                   counts, guestLog, synced>>

\* handleStatusUpdate(complaintId, newStatus) for the first complaint of the panel
\* and every value of its status select
StatusUpdates == [id : {1}, field : {"status"}, value : Statuses]

\* the rows update(dbUpdates).eq("id", id) changes for `caller`: the row with this
\* id, if there is one and the UPDATE policies let the caller at it
Matched(caller, id) == {i \in RowIds : i = id /\ CanUpdate(caller, store[i])}

\* Mutant of UpdatedTable: the statement without its .eq("id", id) filter
UpdatedTableAllRows(caller, upd, now) ==
    [i \in RowIds |-> IF CanUpdate(caller, store[i]) THEN ApplyDb(store[i], upd, now)
                                                      ELSE store[i]]

\* Mutant of UpdatedTable: an upsert, which adds a row when none has the id
UpdatedTableUpsert(caller, upd, now) ==
    IF upd.id \in RowIds
    THEN [i \in RowIds |-> IF i \in Matched(caller, upd.id) THEN ApplyDb(store[i], upd, now)
                                                              ELSE store[i]]
    ELSE Append(store, ApplyDb([NoRow EXCEPT !.id = Len(store) + 1], upd, now))

\* the table after the update statement
UpdatedTable(caller, upd, now) ==
    [i \in RowIds |-> IF i \in Matched(caller, upd.id) THEN ApplyDb(store[i], upd, now)
                                                          ELSE store[i]]

\* The database executes update(dbUpdates).eq("id", id).select().single() under the
\* request's token: with no row updated .single() gives an error
UpdWrite(c) ==
    /\ op[c].pc = "updWrite"
    /\ LET id == op[c].upd.id
           ok == Matched(op[c].token, id) # {}
           row == IF ok THEN ApplyDb(store[id], op[c].upd, clock) ELSE NoRow
       IN  /\ store' = UpdatedTable(op[c].token, op[c].upd, clock)
           /\ op' = [op EXCEPT ![c] = [@ EXCEPT !.pc = "updResp", !.row = row]]
           /\ Publish(row, ok)
    /\ clock' = clock + 1
    /\ UNCHANGED <<selectedComplaint, auth, profile, session, guestMode, complaints, fetches, applied, left, guestLog>>

\* The update's response: on error return it; else the entry with this id is
\* rewritten in the complaints of the render that created this updateComplaint
UpdFinish(c) ==
    /\ op[c].pc = "updResp"
    /\ IF op[c].row = NoRow
       THEN /\ op' = [op EXCEPT ![c] = [Idle EXCEPT !.result = "Failed to update complaint"]]
            /\ complaints' = complaints
       ELSE /\ op' = [op EXCEPT ![c] = [Idle EXCEPT !.result = "ok"]]
            /\ complaints' = [complaints EXCEPT ![c] =
                  [k \in 1..Len(op[c].closure) |->
                      IF op[c].closure[k].id = op[c].upd.id
                      THEN ApplyLocal(op[c].closure[k], op[c].upd, op[c].row)
                      ELSE op[c].closure[k]]]
    /\ UNCHANGED <<selectedComplaint, auth, profile, store, clock, session, guestMode, fetches, pending, applied, left,
                   counts, guestLog, synced>>

Next ==
    \/ \E c \in Clients, u \in Users : SignIn(c, u)
    \/ \E c \in Clients : SignOut(c)
    \/ \E c \in Clients : LoginAsGuest(c)
    \/ \E c \in Clients, name \in ProfileNames : UpdateProfile(c, name)
    \/ \E c \in Clients : RealtimeCallback(c)
    \/ \E c \in Clients, i \in 1..MaxFetches : FetchQuery(c, i)
    \/ \E c \in Clients, i \in 1..MaxFetches : FetchDeliver(c, i)
    \/ \E c \in Clients, data \in ComplaintData : AddStart(c, data)
    \/ \E c \in Clients : AddReadLast(c)
    \/ \E c \in Clients : AddInsert(c)
    \/ \E c \in Clients : AddFinish(c)
    \/ \E c \in Clients, upd \in Updates : UpdStart(c, upd)
    \/ \E c \in Clients : UpdWrite(c)
    \/ \E c \in Clients : UpdFinish(c)
    \/ \E c \in Clients, item \in LegacyComplaints : Migrate(c, item)
    \/ \E c \in Clients, outcome \in ProfileOutcomes : InitializeAuth(c, outcome)
    \/ \E c \in Clients, ok \in BOOLEAN : OnSignedIn(c, ok)
    \/ \E c \in Clients, ok \in BOOLEAN : DeleteAccount(c, ok)
    \/ \E c \in Clients, k \in 1..MaxAdds + 1 : Manage(c, k)

Spec == Init /\ [][Next]_vars

(***************************************************************************)
(* Scenarios: the same actions from narrower initial states, each sized so *)
(* that its state space is explored exhaustively.                          *)
(***************************************************************************)
\* Submissions only: every session / guest-mode combination, no update, no refetch
InitGuest ==
    /\ Init
    /\ left = [adds |-> MaxAdds, updates |-> 0, auth |-> MaxAuth, migrations |-> 0]

NextGuest ==
    \/ \E c \in Clients, u \in Users : SignIn(c, u)
    \/ \E c \in Clients : SignOut(c)
    \/ \E c \in Clients : LoginAsGuest(c)
    \/ \E c \in Clients : AddStart(c, handleSubmit(FilledForm))
    \/ \E c \in Clients : AddReadLast(c)
    \/ \E c \in Clients : AddInsert(c)
    \/ \E c \in Clients : AddFinish(c)

SpecGuest == InitGuest /\ [][NextGuest]_vars

\* Writes only: submissions of signed-in users and updates, no refetch
InitWrite ==
    /\ Init
    /\ guestMode = [c \in Clients |-> FALSE]
    /\ left = [adds |-> MaxAdds, updates |-> MaxUpdates, auth |-> 0, migrations |-> 0]

NextWrite ==
    \/ \E c \in Clients : AddStart(c, handleSubmit(FilledForm))
    \/ \E c \in Clients : AddInsert(c)
    \/ \E c \in Clients : AddFinish(c)
    \/ \E c \in Clients, upd \in Updates : UpdStart(c, upd)
    \/ \E c \in Clients : UpdWrite(c)
    \/ \E c \in Clients : UpdFinish(c)

SpecWrite == InitWrite /\ [][NextWrite]_vars

\* Reads and the realtime refresh around the submissions of signed-in users
InitSync ==
    /\ Init
    /\ guestMode = [c \in Clients |-> FALSE]
    /\ left = [adds |-> MaxAdds - 1, updates |-> 0, auth |-> MaxAuth, migrations |-> 0]

NextSync ==
    \/ \E c \in Clients : SignOut(c)
    \/ \E c \in Clients : RealtimeCallback(c)
    \/ \E c \in Clients, i \in 1..MaxFetches : FetchQuery(c, i)
    \/ \E c \in Clients, i \in 1..MaxFetches : FetchDeliver(c, i)
    \/ \E c \in Clients : AddStart(c, handleSubmit(FilledForm))
    \/ \E c \in Clients : AddInsert(c)
    \/ \E c \in Clients : AddFinish(c)

SpecSync == InitSync /\ [][NextSync]_vars

\* The admin panel at work: a submission and repeated updates, no refetch
InitAdmin ==
    /\ Init
    /\ guestMode = [c \in Clients |-> FALSE]
    /\ left = [adds |-> MaxAdds - 1, updates |-> MaxUpdates + 1, auth |-> 0, migrations |-> 0]

SpecAdmin == InitAdmin /\ [][NextWrite]_vars

\* The form: one submission of any complaint by a signed-in user, and the mount fetch
InitForm ==
    /\ Init
    /\ guestMode = [c \in Clients |-> FALSE]
    /\ left = [adds |-> MaxAdds - 1, updates |-> 0, auth |-> 0, migrations |-> 0]

NextForm ==
    \/ \E c \in Clients, i \in 1..MaxFetches : FetchQuery(c, i)
    \/ \E c \in Clients, i \in 1..MaxFetches : FetchDeliver(c, i)
    \/ \E c \in Clients, data \in ComplaintData : AddStart(c, data)
    \/ \E c \in Clients : AddInsert(c)
    \/ \E c \in Clients : AddFinish(c)

SpecForm == InitForm /\ [][NextForm]_vars

\* Probing ids: one submission, one update of any id, and the mount fetch
InitProbe ==
    /\ Init
    /\ guestMode = [c \in Clients |-> FALSE]
    /\ left = [adds |-> MaxAdds - 1, updates |-> MaxUpdates, auth |-> 0, migrations |-> 0]

NextProbe ==
    \/ \E c \in Clients, i \in 1..MaxFetches : FetchQuery(c, i)
    \/ \E c \in Clients, i \in 1..MaxFetches : FetchDeliver(c, i)
    \/ \E c \in Clients : AddStart(c, handleSubmit(FilledForm))
    \/ \E c \in Clients : AddInsert(c)
    \/ \E c \in Clients : AddFinish(c)
    \/ \E c \in Clients, upd \in Updates : UpdStart(c, upd)
    \/ \E c \in Clients : UpdWrite(c)
    \/ \E c \in Clients : UpdFinish(c)

SpecProbe == InitProbe /\ [][NextProbe]_vars

\* Names: submissions in and out of guest mode by users who may rename themselves
InitName ==
    /\ Init
    /\ left = [adds |-> MaxAdds, updates |-> 0, auth |-> MaxAuth, migrations |-> 0]

NextName ==
    \/ \E c \in Clients, name \in ProfileNames : UpdateProfile(c, name)
    \/ \E c \in Clients : AddStart(c, handleSubmit(FilledForm))
    \/ \E c \in Clients : AddReadLast(c)
    \/ \E c \in Clients : AddInsert(c)
    \/ \E c \in Clients : AddFinish(c)

SpecName == InitName /\ [][NextName]_vars

\* The status select of the admin panel: two updates of the status of the
\* hand-inserted row, to any value
InitStatus ==
    /\ Init
    /\ store = <<ManualTestRow>>
    /\ guestMode = [c \in Clients |-> FALSE]
    /\ left = [adds |-> 0, updates |-> MaxUpdates + 1, auth |-> 0, migrations |-> 0]

NextStatus ==
    \/ \E c \in Clients, upd \in StatusUpdates : UpdStart(c, upd)
    \/ \E c \in Clients : UpdWrite(c)
    \/ \E c \in Clients : UpdFinish(c)

SpecStatus == InitStatus /\ [][NextStatus]_vars

\* The migration prompt: runs of the migration around one update
InitMigrate ==
    /\ Init
    /\ guestMode = [c \in Clients |-> FALSE]
    /\ left = [adds |-> 0, updates |-> MaxUpdates, auth |-> 0, migrations |-> MaxMigrations]

NextMigrate ==
    \/ \E c \in Clients, item \in LegacyComplaints : Migrate(c, item)
    \/ \E c \in Clients, upd \in Updates : UpdStart(c, upd)
    \/ \E c \in Clients : UpdWrite(c)
    \/ \E c \in Clients : UpdFinish(c)

SpecMigrate == InitMigrate /\ [][NextMigrate]_vars

\* The auth context: page load, sign-in, sign-out and account deletion
InitAuth ==
    /\ Init
    /\ guestMode = [c \in Clients |-> FALSE]
    /\ left = [adds |-> 0, updates |-> 0, auth |-> MaxAuth, migrations |-> 0]

NextAuth ==
    \/ \E c \in Clients, outcome \in ProfileOutcomes : InitializeAuth(c, outcome)
    \/ \E c \in Clients, u \in Users : SignIn(c, u)
    \/ \E c \in Clients, ok \in BOOLEAN : OnSignedIn(c, ok)
    \/ \E c \in Clients : SignOut(c)
    \/ \E c \in Clients, ok \in BOOLEAN : DeleteAccount(c, ok)

SpecAuth == InitAuth /\ [][NextAuth]_vars

\* The admin panel left open across a change of user: page load, sign-out and
\* sign-in, the Manage dialog and one status update
InitPanel ==
    /\ Init
    /\ store = <<ManualTestRow>>
    /\ guestMode = [c \in Clients |-> FALSE]
    /\ left = [adds |-> 0, updates |-> MaxUpdates, auth |-> MaxAuth + 1, migrations |-> 0]

NextPanel ==
    \/ \E c \in Clients, outcome \in ProfileOutcomes : InitializeAuth(c, outcome)
    \/ \E c \in Clients, u \in Users : SignIn(c, u)
    \/ \E c \in Clients : SignOut(c)
    \/ \E c \in Clients, i \in 1..MaxFetches : FetchQuery(c, i)
    \/ \E c \in Clients, i \in 1..MaxFetches : FetchDeliver(c, i)
    \/ \E c \in Clients, k \in 1..MaxAdds + 1 : Manage(c, k)
    \/ \E c \in Clients, upd \in StatusUpdates : UpdStart(c, upd)
    \/ \E c \in Clients : UpdWrite(c)
    \/ \E c \in Clients : UpdFinish(c)

SpecPanel == InitPanel /\ [][NextPanel]_vars

\* One user at two browsers, whose clocks differ: submissions and the realtime
\* refresh, on a table that starts empty
InitOrder ==
    /\ Init
    /\ store = <<>>
    /\ session \in {[c \in Clients |-> u] : u \in Users}
    /\ guestMode = [c \in Clients |-> FALSE]
    /\ left = [adds |-> MaxAdds, updates |-> 0, auth |-> 0, migrations |-> 0]

NextOrder ==
    \/ \E c \in Clients : RealtimeCallback(c)
    \/ \E c \in Clients, i \in 1..MaxFetches : FetchQuery(c, i)
    \/ \E c \in Clients, i \in 1..MaxFetches : FetchDeliver(c, i)
    \/ \E c \in Clients : AddStart(c, handleSubmit(FilledForm))
    \/ \E c \in Clients : AddInsert(c)
    \/ \E c \in Clients : AddFinish(c)

SpecOrder == InitOrder /\ [][NextOrder]_vars

(***************************************************************************)
(* Properties.                                                             *)
(***************************************************************************)
\* The table was created with the hand-inserted test row
Seeded == Len(store) > 0 /\ store[1].created_at = 0

GuestRows == {i \in RowIds : store[i].user_id = NoUser}

\* C1: the stored guest records carry pairwise distinct displayName values, however
\* the "read latest handle" and "insert" steps of the guest submissions interleave.
C1_DistinctGuestNames ==
    \A i, j \in GuestRows : i # j => store[i].user_name # store[j].user_name

\* gateway rule of the spec: who may create a record with which ownerId
AllowedCreate(caller, owner) ==
    \/ (caller = NoUser /\ owner = NoUser)
    \/ (caller \in Residents /\ owner = caller)
    \/ caller \in Admins

\* C5: an insert is accepted only for an Anonymous caller with ownerId absent, a
\* Resident with ownerId = own id, or an Admin; a Resident's insert with ownerId
\* absent or another user's id is answered with an error and creates no record.
C5_InsertAuthorization ==
    [][\A c \in Clients :
          (op[c].pc = "addInsert" /\ op'[c].pc = "addResp") =>
              LET caller == op[c].token
                  owner == op[c].row.user_id
              IN  /\ store' # store => AllowedCreate(caller, owner)
                  /\ (caller \in Residents /\ owner # caller) =>
                         (store' = store /\ op'[c].row = NoRow)]_vars

\* C5 witness: a Resident's submission with ownerId absent was rejected and the
\* error is about to be returned, the store holding no guest record
C5_Witness ==
    \E c \in Clients :
        /\ op[c].pc = "addResp" /\ op[c].token \in Residents /\ op[c].row = NoRow
        /\ Len(guestLog) > 0 /\ guestLog[Len(guestLog)].caller = op[c].token
        /\ ~guestLog[Len(guestLog)].ok
        /\ GuestRows = {}

\* C6: over the whole history no anonymous handle is assigned to two guest
\* submissions that reached the store, and a handle whose number passes 999 has
\* four or more digits.
C6_HandlesNeverReused ==
    /\ \A i, j \in 1..Len(guestLog) :
           (i # j /\ guestLog[i].ok /\ guestLog[j].ok) => guestLog[i].name # guestLog[j].name
    /\ \A i \in 1..Len(guestLog) :
           ParseInt(guestLog[i].name.digits) > 999 => Len(guestLog[i].name.digits) >= 4

FetchIds(c) == 1..Len(fetches[c])

Answered(c, i) == fetches[c][i].pc \in {"resp", "done"}

\* C2: whatever the table holds, the result of a fetchComplaints issued under a
\* resident's session, and the complaints it is delivered into, contain no
\* complaint whose userId is another resident
C2_NoForeignRecords ==
    \A c \in Clients : \A i \in FetchIds(c) :
        fetches[c][i].user \in Residents =>
            \A k \in 1..Len(fetches[c][i].data) :
                fetches[c][i].data[k].userId \notin Residents \ {fetches[c][i].user}

\* a resident's query answered when the table already held another resident's row
C2_Witness ==
    \E c \in Clients : \E i \in FetchIds(c) :
        /\ fetches[c][i].user \in Residents
        /\ Answered(c, i)
        /\ \E r \in 1..fetches[c][i].rows :
              store[r].user_id \in Residents \ {fetches[c][i].user}

\* C23: the result of a fetchComplaints issued under an admin's session holds
\* every row the table held when the query was answered, once each, whoever
\* owns it and also when it has no owner
C23_AdminReadsAll ==
    \A c \in Clients : \A i \in FetchIds(c) :
        (fetches[c][i].user \in Admins /\ Answered(c, i)) =>
            /\ Len(fetches[c][i].data) = fetches[c][i].rows
            /\ \A r \in 1..fetches[c][i].rows :
                  \E k \in 1..Len(fetches[c][i].data) :
                      /\ fetches[c][i].data[k].id = r
                      /\ fetches[c][i].data[k].userId = store[r].user_id

\* an admin's query answered when the table held a resident's row and a row
\* without owner
C23_Witness ==
    \E c \in Clients : \E i \in FetchIds(c) :
        /\ fetches[c][i].user \in Admins
        /\ Answered(c, i)
        /\ \E r \in 1..fetches[c][i].rows : store[r].user_id \in Residents
        /\ \E r \in 1..fetches[c][i].rows : store[r].user_id = NoUser

\* C3: a fetchComplaints issued by a client that has no session is complete at
\* once with an empty result, and the client's complaints are empty after it
C3_AnonymousReadEmpty ==
    [][\A c \in Clients :
          (Len(fetches'[c]) = Len(fetches[c]) + 1 /\ session[c] = NoUser) =>
              /\ fetches'[c][Len(fetches'[c])].pc = "done"
              /\ fetches'[c][Len(fetches'[c])].data = <<>>
              /\ complaints'[c] = <<>>]_vars

\* a client without a session has fetched, after its mount, from a table that
\* holds rows, a guest's row among them, and shows nothing
C3_Witness ==
    \E c \in Clients :
        /\ session[c] = NoUser
        /\ Len(fetches[c]) >= 2
        /\ fetches[c][Len(fetches[c])].user = NoUser
        /\ applied[c] = Len(fetches[c])
        /\ complaints[c] = <<>>
        /\ GuestRows # {}
        /\ Len(store) >= 2

(***************************************************************************)
(* Updates                                                                 *)
(***************************************************************************)
\* C4: an update statement issued by a caller who is not an admin fails and
\* leaves the table unchanged
C4_OnlyAdminUpdates ==
    [][\A c \in Clients :
          (op[c].pc = "updWrite" /\ op'[c].pc = "updResp" /\ op[c].token \notin Admins) =>
              (store' = store /\ op'[c].row = NoRow)]_vars

\* the value the row holds in the column an update writes
Column(row, field) ==
    IF field = "status" THEN row.status
    ELSE IF field = "priority" THEN row.priority
    ELSE row.admin_notes

\* C11: an admin's update that writes to status or priority the value the row
\* already holds (the second of two equal updates in a row) changes nothing of
\* the row but updated_at, which grows, and publishes exactly one event
C11_RepeatedUpdateIdempotent ==
    [][\A c \in Clients :
          (/\ op[c].pc = "updWrite" /\ op'[c].pc = "updResp"
           /\ op[c].token \in Admins
           /\ op[c].upd.id \in RowIds
           /\ op[c].upd.field \in {"status", "priority"}
           /\ Column(store[op[c].upd.id], op[c].upd.field) = op[c].upd.value) =>
              LET id == op[c].upd.id
              IN  /\ store' = [store EXCEPT ![id].updated_at = store'[id].updated_at]
                  /\ store'[id].updated_at > store[id].updated_at
                  /\ counts'.published = counts.published + 1]_vars

\* the hand-inserted guest row, which only an admin may update, has been set to
\* resolved by two committed updates, each announced once
C11_Witness ==
    /\ Seeded /\ Len(store) = 1
    /\ counts.commits = 2 /\ counts.published = 2
    /\ store[1].status = "resolved" /\ store[1].priority = "medium"
    /\ store[1].admin_notes = Null
    /\ store[1].updated_at > store[1].created_at

\* the update statement of client c is executed in this step
UpdateStep(c) == op[c].pc = "updWrite" /\ op'[c].pc = "updResp"

\* the response of a refused update statement is handled in this step
UpdateRefusedStep(c) == op[c].pc = "updResp" /\ op[c].row = NoRow /\ op'[c].pc = "idle"

\* C14: an admin's update of an id no row has fails: the table is as before (no
\* row added, none changed), nothing is published, the error is returned and
\* the complaints of the client are as before
C14_UpdateUnknownId ==
    [][\A c \in Clients :
          /\ (UpdateStep(c) /\ op[c].token \in Admins /\ op[c].upd.id \notin RowIds) =>
                 /\ store' = store
                 /\ op'[c].row = NoRow
                 /\ counts'.published = counts.published
          /\ UpdateRefusedStep(c) =>
                 /\ op'[c].result = "Failed to update complaint"
                 /\ complaints' = complaints]_vars

\* an admin's update of an id that no row of the non-empty table has was refused
C14_Witness ==
    \E c \in Clients :
        /\ op[c].pc = "updResp" /\ op[c].token \in Admins
        /\ op[c].upd.id \notin RowIds /\ op[c].row = NoRow
        /\ store # <<>>

\* id is the id of a row of another resident
Foreign(u, id) == id \in RowIds /\ store[id].user_id \in Residents \ {u}

\* the rows of the table that are u's own, as fetchComplaints maps them
OwnSlice(u) == MapComplaints(OrderByDateDesc({i \in RowIds : store[i].user_id = u}))

\* C15: for a resident, an update of another resident's id is answered as an
\* update of an id no row has is (no row returned, table unchanged, no event,
\* then the one error message and unchanged complaints), and a read returns the
\* resident's own rows whatever other rows exist, never an error
C15_ForbiddenLikeAbsent ==
    [][\A c \in Clients :
          /\ (/\ UpdateStep(c) /\ op[c].token \in Residents
               /\ (op[c].upd.id \notin RowIds \/ Foreign(op[c].token, op[c].upd.id))) =>
                 /\ store' = store
                 /\ op'[c].row = NoRow
                 /\ pending' = pending
          /\ UpdateRefusedStep(c) =>
                 /\ op'[c].result = "Failed to update complaint"
                 /\ complaints' = complaints
          /\ \A i \in FetchIds(c) :
                 (/\ fetches[c][i].pc = "query" /\ fetches'[c][i].pc = "resp"
                  /\ fetches[c][i].user \in Residents) =>
                     fetches'[c][i].data = OwnSlice(fetches[c][i].user)]_vars

\* a resident's update of a row of another resident was refused
C15_Witness ==
    \E c \in Clients :
        /\ op[c].pc = "updResp" /\ op[c].token \in Residents
        /\ Foreign(op[c].token, op[c].upd.id)
        /\ op[c].row = NoRow

\* C21: an admin's update of the status of a stored row to any value is
\* carried out whatever status the row has: the row then has that status and
\* is returned, so each status is one update away from each other
C21_AnyStatusTransition ==
    [][\A c \in Clients :
          (/\ UpdateStep(c) /\ op[c].token \in Admins
           /\ op[c].upd.id \in RowIds /\ op[c].upd.field = "status") =>
              /\ store'[op[c].upd.id].status = op[c].upd.value
              /\ op'[c].row = store'[op[c].upd.id]]_vars

\* two updates of the status of the row have committed, the second one leaving
\* it in a status that is neither the initial pending nor resolved
C21_Witness ==
    /\ counts.commits = 2
    /\ store[1].status \in Statuses \ {"pending", "resolved"}
    /\ \E c \in Clients : op[c].pc = "updResp" /\ op[c].row = store[1]

\* C22: the status and the priority of a stored row change only in the step
\* that executes an update statement of updateComplaint
C22_StatusOnlyByUpdate ==
    [][\A i \in RowIds :
          (store'[i].status # store[i].status \/ store'[i].priority # store[i].priority) =>
              \E c \in Clients : UpdateStep(c)]_vars

\* C24: an update statement changes, in the row it names, nothing but the
\* column it writes and updated_at, and changes no other row
C24_UpdateFrame ==
    [][\A c \in Clients :
          UpdateStep(c) =>
              /\ Len(store') = Len(store)
              /\ \A i \in RowIds :
                     IF i = op[c].upd.id
                     THEN store'[i] = [store[i] EXCEPT !.status = store'[i].status,
                                                       !.priority = store'[i].priority,
                                                       !.admin_notes = store'[i].admin_notes,
                                                       !.updated_at = store'[i].updated_at]
                     ELSE store'[i] = store[i]]_vars

\* an update of one of two stored rows has committed
C24_Witness ==
    /\ Len(store) >= 2
    /\ \E c \in Clients :
          /\ op[c].pc = "updResp" /\ op[c].row # NoRow
          /\ op[c].row = store[op[c].upd.id]
          /\ op[c].row.updated_at > op[c].row.created_at

\* two updates of one row that write different columns have both committed
BothCommitted(c, d) ==
    /\ c # d
    /\ op[c].pc = "updResp" /\ op[c].row # NoRow
    /\ op[d].pc = "updResp" /\ op[d].row # NoRow
    /\ op[c].upd.id = op[d].upd.id
    /\ op[c].upd.field # op[d].upd.field

\* C25: when two updates of one row that write different columns have both
\* committed, in whichever order, the row holds the value of each
C25_ConcurrentUpdatesMerge ==
    \A c, d \in Clients :
        BothCommitted(c, d) =>
            /\ Column(store[op[c].upd.id], op[c].upd.field) = op[c].upd.value
            /\ Column(store[op[c].upd.id], op[d].upd.field) = op[d].upd.value

\* two admins' updates of status and of priority of one row, started before
\* either was executed, have both committed
C25_Witness ==
    \E c, d \in Clients :
        /\ BothCommitted(c, d)
        /\ op[c].token \in Admins /\ op[d].token \in Admins
        /\ op[c].upd.field = "status" /\ op[d].upd.field = "priority"
        /\ op[c].row.priority = "medium"
        /\ op[d].row.status = "resolved"

(***************************************************************************)
(* Overlapping fetches and the realtime refresh                            *)
(***************************************************************************)
\* C26: the complaints a client holds are ones its current session may read:
\* none without a session, only the resident's own under a resident's session
C26_CacheWithinAuthority ==
    \A c \in Clients :
        /\ session[c] = NoUser => complaints[c] = <<>>
        /\ session[c] \in Residents =>
              \A k \in 1..Len(complaints[c]) : complaints[c][k].userId = session[c]

\* C30: the complaints a client holds are listed from the latest dateSubmitted
\* to the earliest
C30_CacheNewestFirst ==
    \A c \in Clients : \A k \in 1..Len(complaints[c]) - 1 :
        complaints[c][k].dateSubmitted >= complaints[c][k + 1].dateSubmitted

\* C8: the response of a fetch issued before the one whose result is already
\* in complaints is discarded
C8_StaleResponseDiscarded ==
    [][\A c \in Clients : \A i \in FetchIds(c) :
          (fetches[c][i].pc = "resp" /\ fetches'[c][i].pc = "done" /\ i < applied[c]) =>
              complaints'[c] = complaints[c]]_vars

Quiescent ==
    \A c \in Clients :
        /\ pending[c] = 0
        /\ op[c].pc = "idle"
        /\ \A i \in FetchIds(c) : fetches[c][i].pc = "done"

\* C9: once nothing is in flight (no undelivered event, no running fetch, add
\* or update), the complaints of every signed-in client that has been sent an
\* event are the rows its session may read
C9_QuiescentCacheIsSlice ==
    Quiescent =>
        \A c \in Clients :
            (session[c] # NoUser /\ synced[c]) => complaints[c] = SelectComplaints(session[c])

InsertStep(c) == op[c].pc = "addInsert" /\ op'[c].pc = "addResp"

Absent(v) == v \in {Null, Empty}

\* the values of the columns the spec requires of every submission
RequiredValues(row) ==
    {row.title, row.description, row.category, row.location, row.contact_info}

C18_SubmissionAtomic ==
    [][/\ store' # store =>
              \E c \in Clients :
                  /\ InsertStep(c)
                  /\ op'[c].row # NoRow
                  /\ store' = Append(store, op'[c].row)
                  /\ op'[c].row.user_name = op[c].row.user_name
                  /\ op'[c].row.user_name # NoName
       /\ \A c \in Clients :
              (InsertStep(c) /\ op'[c].row = NoRow) => store' = store]_vars

\* a guest submission was refused and the next one, which did not overlap it,
\* was stored under the handle the refused one had computed
C18_Witness ==
    /\ ~counts.overlap
    /\ Len(guestLog) = 2
    /\ ~guestLog[1].ok /\ guestLog[2].ok
    /\ guestLog[1].name = guestLog[2].name
    /\ \E i \in GuestRows : store[i].user_name = guestLog[2].name /\ store[i].created_at > 0

\* C19: the insert of a guest complaint whose handle a stored row already
\* carries is refused by the table
C19_DuplicateHandleRejected ==
    [][\A c \in Clients :
          (/\ InsertStep(c)
           /\ op[c].row.user_id = NoUser
           /\ \E i \in RowIds : store[i].user_name = op[c].row.user_name) =>
              store' = store]_vars

\* C20: every row an insert of addComplaint adds to the table has status
\* pending, and priority high if its category is emergency, medium otherwise
C20_InitialStatusPriority ==
    [][\A c \in Clients :
          (InsertStep(c) /\ store' # store) =>
              LET new == store'[Len(store')]
              IN  /\ new.status = "pending"
                  /\ new.priority = IF new.category = "emergency" THEN "high" ELSE "medium"]_vars

\* an emergency complaint has been stored with priority high beside a stored
\* complaint of another category
C20_Witness ==
    \E i \in RowIds :
        /\ store[i].created_at > 0
        /\ store[i].category = "emergency"
        /\ store[i].priority = "high" /\ store[i].status = "pending"

(***************************************************************************)
(* Names and timestamps of the stored rows                                 *)
(***************************************************************************)
\* the anonymous-handle grammar: the prefix and a number of at least PadWidth digits
IsHandle(name) == name.prefix = AnonPrefix /\ Len(name.digits) >= PadWidth

\* C17: in every stored row date_submitted is not later than updated_at
C17_SubmittedBeforeUpdated ==
    \A i \in RowIds : store[i].date_submitted <= store[i].updated_at

\* what the Manage dialog shows of the complaint's administrative state
PanelColumns(complaint) == <<complaint.status, complaint.priority, complaint.adminNotes>>

\* C29: when an update call returns an error, the client's complaints are the
\* ones it held before the response and the Manage dialog, if it shows the
\* complaint of the call, shows the status, priority and notes it showed when
\* the call was made
C29_FailedUpdateChangesNoView ==
    [][\A c \in Clients :
          UpdateRefusedStep(c) =>
              /\ complaints'[c] = complaints[c]
              /\ (op[c].view # NoComplaint /\ selectedComplaint'[c].id = op[c].upd.id) =>
                    PanelColumns(selectedComplaint'[c]) = PanelColumns(op[c].view)]_vars

\* C28: in the auth context isAdmin is true only while user is set and the
\* session is an admin's
C28_IsAdminOnlyForAdmin ==
    \A c \in Clients :
        auth[c].isAdmin => (auth[c].user # NoUser /\ IsAdminUser(session[c]))

\* C27: an insert sent with the token of a session stores the row with that
\* user's id as user_id and that user's name as user_name
C27_SessionSubmissionOwned ==
    [][\A c \in Clients :
          (InsertStep(c) /\ op[c].token # NoUser /\ Len(store') = Len(store) + 1) =>
              /\ store'[Len(store')].user_id = op[c].token
              /\ store'[Len(store')].user_name = profile[op[c].token]]_vars

\* C16: a stored row has no user_id exactly if its user_name is an anonymous handle
C16_GuestIffHandle ==
    \A i \in RowIds : (store[i].user_id = NoUser) <=> IsHandle(store[i].user_name)

====
